---- MODULE Spec2Model ----
(***************************************************************************)
(* LensForge storefront: the cart ledger shared by the product detail page *)
(* (src/detail.js) and the cart page (src/cart.js) through the single      *)
(* localStorage key 'cart'.                                                *)
(*                                                                         *)
(* JavaScript values are records [k, n, s]: k is the kind, n the number    *)
(* (kind "num") and s the characters of a string (kind "str", a sequence   *)
(* of one-character strings) or the elements of an array (kind "arr").     *)
(* Numbers are integers; the strings of the model hold "$", digits and     *)
(* letters only.                                                           *)
(***************************************************************************)
EXTENDS Integers, Sequences, FiniteSets, TLC

\* ------------------------------------------------------------------ bounds
\* Products of the catalog (data.json), ids 1..NumProducts.
NumProducts == 3
\* Longest cart handed to calculateCart in SpecCalc.
MaxCartLen == 7
\* Products the tabs of SpecTabs open and add, ids 1..TabProducts.
TabProducts == 2
\* Input events the search boxes of the listing page receive in SpecListing.
MaxInputs == 2
\* Longest catalog a detail page fetches in SpecDetail.
MaxCatalog == 6

\* ------------------------------------------------------- JavaScript values
Undef == [k |-> "undef", n |-> 0, s |-> <<>>]
Null == [k |-> "null", n |-> 0, s |-> <<>>]
NaN == [k |-> "nan", n |-> 0, s |-> <<>>]
Num(i) == [k |-> "num", n |-> i, s |-> <<>>]
Str(cs) == [k |-> "str", n |-> 0, s |-> cs]
Arr(xs) == [k |-> "arr", n |-> 0, s |-> xs]
\* An object that is no array, such as {}.
Obj == [k |-> "obj", n |-> 0, s |-> <<>>]

\* ToBoolean: undefined, null, NaN, 0 and "" are falsy.
Truthy(v) ==
    CASE v.k \in {"undef", "null", "nan"} -> FALSE
      [] v.k = "num" -> v.n # 0
      [] v.k = "str" -> v.s # <<>>
      [] OTHER -> TRUE

DigitChars == <<"0", "1", "2", "3", "4", "5", "6", "7", "8", "9">>

DigitSet == {DigitChars[d] : d \in 1..10}

DigitValues == [c \in DigitSet |-> (CHOOSE d \in 1..10 : DigitChars[d] = c) - 1]

IsDigit(c) == c \in DigitSet

DigitValue(c) == DigitValues[c]

RECURSIVE NatToChars(_)
NatToChars(i) ==
    IF i < 10 THEN <<DigitChars[i + 1]>>
    ELSE NatToChars(i \div 10) \o <<DigitChars[(i % 10) + 1]>>

\* Number::toString of an integer.
NumToChars(i) == IF i < 0 THEN <<"-">> \o NatToChars(-i) ELSE NatToChars(i)

\* ToString, as a template literal `${v}` applies it.
ToChars(v) ==
    CASE v.k = "str" -> v.s
      [] v.k = "num" -> NumToChars(v.n)
      [] v.k = "undef" -> <<"u", "n", "d", "e", "f", "i", "n", "e", "d">>
      [] v.k = "null" -> <<"n", "u", "l", "l">>
      [] v.k = "nan" -> <<"N", "a", "N">>
      [] OTHER -> <<>>

\* String.prototype.replace('$', ''): the first "$" only, wherever it is.
RECURSIVE ReplaceFirstDollar(_)
ReplaceFirstDollar(cs) ==
    IF cs = <<>> THEN <<>>
    ELSE IF Head(cs) = "$" THEN Tail(cs)
    ELSE <<Head(cs)>> \o ReplaceFirstDollar(Tail(cs))

RECURSIVE DigitPrefix(_)
DigitPrefix(cs) ==
    IF cs = <<>> \/ ~IsDigit(Head(cs)) THEN <<>>
    ELSE <<Head(cs)>> \o DigitPrefix(Tail(cs))

RECURSIVE DigitsToNat(_, _)
DigitsToNat(cs, acc) ==
    IF cs = <<>> THEN acc
    ELSE DigitsToNat(Tail(cs), (acc * 10) + DigitValue(Head(cs)))

RECURSIVE SkipSpaces(_)
SkipSpaces(cs) ==
    IF cs # <<>> /\ Head(cs) = " " THEN SkipSpaces(Tail(cs)) ELSE cs

\* parseFloat: leading blanks, an optional sign, then the longest run of
\* digits; NaN when there is no digit. What follows the digits is ignored.
ParseFloat(cs) ==
    LET t == SkipSpaces(cs)
        neg == t # <<>> /\ Head(t) = "-"
        u == IF t # <<>> /\ Head(t) \in {"-", "+"} THEN Tail(t) ELSE t
        ds == DigitPrefix(u)
    IN  IF ds = <<>> THEN NaN
        ELSE Num(IF neg THEN -DigitsToNat(ds, 0) ELSE DigitsToNat(ds, 0))

\* ------------------------------------------------------------- the catalog
ItemFields ==
    {"id", "name", "brand", "summary", "price", "displayPrice", "images",
     "category"}

ProductFields == ItemFields \cup {"details"}

\* The price of product i as data.json gives it: a number, a currency
\* string, a string that is no number, or no price at all.
ProductPrice(i) ==
    CASE i % 4 = 1 -> Num(100 * i)
      [] i % 4 = 2 -> Str(<<"$">> \o NumToChars(25 * i))
      [] i % 4 = 3 -> Str(<<"P", "O", "A">>)
      [] OTHER -> Undef

\* Product i of data.json. displayPrice and summary are optional.
Product(i) ==
    [id |-> Num(i),
     name |-> Str(<<"P">> \o NumToChars(i)),
     brand |-> Str(IF i % 2 = 1 THEN <<"C", "n">> ELSE <<"S", "y">>),
     category |-> Str(IF i % 2 = 1 THEN <<"C", "a", "m">> ELSE <<"L", "n", "s">>),
     summary |-> IF i % 3 = 0 THEN Undef ELSE Str(<<"s">> \o NumToChars(i)),
     details |-> Str(<<"d">> \o NumToChars(i)),
     price |-> ProductPrice(i),
     displayPrice |->
         IF i % 4 = 1 THEN Str(<<"$">> \o NumToChars(100 * i) \o <<".", "0">>)
         ELSE Undef,
     images |-> Arr(<<Str(<<"i">> \o NumToChars(i))>>)]

ProductIds == 1..NumProducts

\* The catalog a page fetched.
Products == [i \in ProductIds |-> Product(i)]

\* --------------------------------------------------------------- JSON text
\* A JSON document is kept as its syntax tree. A number is its numeral
\* (kind "jnum", the digits in s); a member that is not written is "absent".
Absent == [k |-> "absent", n |-> 0, s |-> <<>>]
JNum(cs) == [k |-> "jnum", n |-> 0, s |-> cs]

\* JSON.stringify of one value: a number becomes its numeral, NaN becomes
\* null, and (in an object) a member whose value is undefined is left out.
RECURSIVE StringifyValue(_)
StringifyValue(v) ==
    CASE v.k = "undef" -> Absent
      [] v.k = "nan" -> Null
      [] v.k = "num" -> JNum(NumToChars(v.n))
      [] v.k = "arr" -> Arr([i \in 1..Len(v.s) |-> StringifyValue(v.s[i])])
      [] OTHER -> v

\* JSON.parse of one value: a numeral becomes its number; reading a member
\* that was not written gives undefined.
RECURSIVE ParseValue(_)
ParseValue(j) ==
    CASE j.k = "absent" -> Undef
      [] j.k = "jnum" -> ParseFloat(j.s)
      [] j.k = "arr" -> Arr([i \in 1..Len(j.s) |-> ParseValue(j.s[i])])
      [] OTHER -> j

StringifyObject(o) == [f \in DOMAIN o |-> StringifyValue(o[f])]

ParseObject(j) == [f \in DOMAIN j |-> ParseValue(j[f])]

\* ----------------------------------------------------- localStorage 'cart'
\* The stored value: absent (getItem gives null), or a text: the empty
\* string, a text that is no JSON ("garbage"), or a JSON document doc,
\* which is a value or an array of line items (kind "cart", in items).
StAbsent == [k |-> "absent", doc |-> Null, items |-> <<>>]
StEmptyString == [k |-> "empty", doc |-> Null, items |-> <<>>]
StGarbage == [k |-> "garbage", doc |-> Null, items |-> <<>>]
StValue(j) == [k |-> "value", doc |-> j, items |-> <<>>]
StCart(js) == [k |-> "cart", doc |-> Null, items |-> js]

\* A stringify of the cart that writes an undefined member as null, as
\* JSON.stringify does for an undefined array element.
JSONstringify_UndefinedAsNull(items) ==
    StCart([i \in 1..Len(items) |->
               [f \in DOMAIN items[i] |->
                   IF items[i][f] = Undef THEN Null ELSE StringifyValue(items[i][f])]])

\* JSON.stringify(cart) for an array of line items.
JSONstringify(items) ==
    StCart([i \in 1..Len(items) |-> StringifyObject(items[i])])

\* JSON.parse(text): [ok |-> FALSE] stands for the SyntaxError it throws.
\* The argument is converted to a string first: null reads as "null".
JSONparse(st) ==
    CASE st.k = "absent" -> [ok |-> TRUE, v |-> Null, items |-> <<>>]
      [] st.k \in {"empty", "garbage"} -> [ok |-> FALSE, v |-> Undef, items |-> <<>>]
      [] st.k = "value" -> [ok |-> TRUE, v |-> ParseValue(st.doc), items |-> <<>>]
      [] OTHER ->
          [ok |-> TRUE, v |-> Arr(<<>>),
           items |-> [i \in 1..Len(st.items) |-> ParseObject(st.items[i])]]

\* What a script finds in the key before any cart was saved, or after
\* something else wrote to it.
InitialStorage ==
    {StAbsent, StEmptyString, StGarbage, StValue(Null), StValue(Obj),
     StValue(JNum(<<"0">>)), StValue(JNum(<<"5">>)), StCart(<<>>)}

\* ------------------------------------------------------ detail.js: the cart
\* a === b for two primitive values.
StrictEq(a, b) == a.k # "nan" /\ a = b

\* A findIndex result tested as "existingIndex > 0": a match at position 0
\* counts as no match.
FindIndexById_FromSecond(items, id) ==
    LET hits == {i \in 2..Len(items) : StrictEq(items[i].id, id)}
    IN  IF hits = {} THEN 0 - 1
        ELSE (CHOOSE i \in hits : \A j \in hits : i <= j) - 1

\* A findIndex whose callback never matches.
FindIndexById_NeverFound(items, id) == 0 - 1

\* cart.findIndex(item => item.id === product.id): the first position
\* (from 0) of a line item with that id, -1 when there is none.
FindIndexById(items, id) ==
    LET hits == {i \in 1..Len(items) : StrictEq(items[i].id, id)}
    IN  IF hits = {} THEN -1
        ELSE (CHOOSE i \in hits : \A j \in hits : i <= j) - 1

\* The line item addToCart builds from a product: details is dropped, and
\* displayPrice falls back to "$" followed by the price.
CartProduct(product) ==
    [id |-> product.id,
     name |-> product.name,
     brand |-> product.brand,
     summary |-> product.summary,
     price |-> product.price,
     displayPrice |->
         IF Truthy(product.displayPrice) THEN product.displayPrice
         ELSE Str(<<"$">> \o ToChars(product.price)),
     images |-> product.images,
     category |-> product.category]

\* The product the "Add to Cart" button passes to addToCart: the object
\* literal that JSON.stringify(product) wrote into its onclick attribute.
ButtonProduct(product) == ParseObject(StringifyObject(product))

\* cart.unshift(cartProduct) in place of push.
Push_Unshift(items, item) == <<item>> \o items

\* cart.push(cartProduct)
Push(items, item) == Append(items, item)

\* addToCart(product) on the stored value st: the outcome, the value the key
\* holds afterwards, and the array that was saved (when one was).
\*   "error"   JSON.parse threw, or the parsed value has no findIndex
\*   "already" a line item with the product's id is in the cart
\*   "added"   the line item was pushed and the cart saved
AddToCartResult(st, product) ==
    LET parsed == JSONparse(st)
        isArray == parsed.ok /\ (~Truthy(parsed.v) \/ parsed.v.k = "arr")
        items == IF parsed.ok /\ Truthy(parsed.v) THEN parsed.items ELSE <<>>
    IN  IF ~isArray
        THEN [outcome |-> "error", storage |-> st, saved |-> <<>>]
        ELSE IF FindIndexById(items, product.id) # -1
        THEN [outcome |-> "already", storage |-> st, saved |-> <<>>]
        ELSE LET pushed == Push(items, CartProduct(product))
             IN  [outcome |-> "added", storage |-> JSONstringify(pushed),
                  saved |-> pushed]

\* updateCartCount: the text it gives the count elements, old when
\* JSON.parse throws. A value that is no array has no length: undefined.
CartCountText(st, old) ==
    LET parsed == JSONparse(st)
    IN  IF ~parsed.ok THEN old
        ELSE IF ~Truthy(parsed.v) THEN Num(0)
        ELSE IF parsed.v.k = "arr" THEN Num(Len(parsed.items))
        ELSE IF parsed.v.k = "str" THEN Num(Len(parsed.v.s))
        ELSE Undef

\* -------------------------------------------------------- cart.js: totals
SHIPPING_BASE == 0
SHIPPING_ONE_ITEM == 170
SHIPPING_TWO_ITEMS == 220
SHIPPING_THREE_TO_FIVE == 270
SHIPPING_SIX_PLUS == 350

\* The three-to-five tier tested as "itemCount < 5".
calculateShipping_FiveExcluded(itemCount) ==
    IF itemCount = 0 THEN SHIPPING_BASE
    ELSE IF itemCount = 1 THEN SHIPPING_ONE_ITEM
    ELSE IF itemCount = 2 THEN SHIPPING_TWO_ITEMS
    ELSE IF itemCount >= 3 /\ itemCount < 5 THEN SHIPPING_THREE_TO_FIVE
    ELSE IF itemCount >= 6 THEN SHIPPING_SIX_PLUS
    ELSE SHIPPING_BASE

calculateShipping(itemCount) ==
    IF itemCount = 0 THEN SHIPPING_BASE
    ELSE IF itemCount = 1 THEN SHIPPING_ONE_ITEM
    ELSE IF itemCount = 2 THEN SHIPPING_TWO_ITEMS
    ELSE IF itemCount >= 3 /\ itemCount <= 5 THEN SHIPPING_THREE_TO_FIVE
    ELSE IF itemCount >= 6 THEN SHIPPING_SIX_PLUS
    ELSE SHIPPING_BASE

\* A price that is no number counted as 0, its text never parsed.
ItemPrice_NumbersOnly(item) == IF item.price.k = "num" THEN item.price.n ELSE 0

\* The price calculateCart adds for one line item: the number itself, or
\* parseFloat of the price's text without its first "$", 0 when that is NaN
\* or 0 and when the price is falsy.
ItemPrice(item) ==
    IF item.price.k = "num" THEN item.price.n
    ELSE LET text == IF Truthy(item.price) THEN ToChars(item.price) ELSE <<"0">>
             parsed == ParseFloat(ReplaceFirstDollar(text))
         IN  IF Truthy(parsed) THEN parsed.n ELSE 0

RECURSIVE SumPrices(_)
SumPrices(items) ==
    IF items = <<>> THEN 0 ELSE ItemPrice(Head(items)) + SumPrices(Tail(items))

\* The in-memory cart of the cart page: a value v and, when v is an array,
\* its line items.
CartValue(v, items) == [v |-> v, items |-> items]

EmptyCart == CartValue(Arr(<<>>), <<>>)

IsArray(c) == c.v.k = "arr"

\* loadCartFromStorage: a falsy getItem result (null, "") and a text
\* JSON.parse throws on give []; any other text gives whatever it parses to.
LoadCartFromStorage(st) ==
    LET parsed == JSONparse(st)
    IN  IF st.k \in {"absent", "empty"} THEN EmptyCart
        ELSE IF ~parsed.ok THEN EmptyCart
        ELSE CartValue(parsed.v, parsed.items)

\* calculateCart on cart c: subtotal is reset first; cart.forEach throws a
\* TypeError (threw) when the cart is no array, and shipping and total then
\* keep their old values.
CalculateCart(c, oldShipping, oldTotal) ==
    IF ~IsArray(c)
    THEN [threw |-> TRUE, subtotal |-> 0, shipping |-> oldShipping,
          total |-> oldTotal]
    ELSE LET sub == SumPrices(c.items)
             ship == calculateShipping(Len(c.items))
         IN  [threw |-> FALSE, subtotal |-> sub, shipping |-> ship,
              total |-> sub + ship]

\* ---------------------------------------------------------- cart.js: view
\* The text of an element the page does not have, and the text an element
\* has before a script wrote to it.
NoElement == [k |-> "none", n |-> 0, s |-> <<>>]
InitialText == [k |-> "initial", n |-> 0, s |-> <<>>]

\* `$${n.toFixed(2)}` for an integer n.
FormatMoney(n) == <<"$">> \o NumToChars(n) \o <<".", "0", "0">>

\* parseInt of an attribute's text.
ParseInt(cs) == ParseFloat(cs)

\* The #cartItems container: as cart.html has it ("initial"), the rows of
\* displayCartItems ("rows"), or the empty-cart message ("empty").
Container(kind, rows) == [k |-> kind, rows |-> rows]

\* createCartItemElement writing the item's number (from 1) into data-index.
CartRow_OneBased(item, index) ==
    [dataIndex |-> NumToChars(index + 1),
     name |-> ToChars(item.name),
     summary |-> IF Truthy(item.summary) THEN ToChars(item.summary) ELSE <<>>,
     price |-> IF Truthy(item.displayPrice) THEN ToChars(item.displayPrice)
               ELSE <<"$">> \o ToChars(item.price)]

\* createCartItemElement: a row shows a line item's name, summary and
\* price; its remove button carries the item's position in data-index.
CartRow(item, index) ==
    [dataIndex |-> NumToChars(index),
     name |-> ToChars(item.name),
     summary |-> IF Truthy(item.summary) THEN ToChars(item.summary) ELSE <<>>,
     price |-> IF Truthy(item.displayPrice) THEN ToChars(item.displayPrice)
               ELSE <<"$">> \o ToChars(item.price)]

\* displayCartItems: nothing is done for an empty cart.
DisplayCartItems(c, old) ==
    IF Len(c.items) = 0 THEN old
    ELSE Container("rows", [i \in 1..Len(c.items) |-> CartRow(c.items[i], i - 1)])

\* updateSummary
SummaryTexts(sub, ship, tot) ==
    <<FormatMoney(sub), FormatMoney(ship), FormatMoney(tot)>>

\* toggleEmptyCartMessage: the container and the checkout button's disabled.
ToggleEmptyCartMessage(c, old) ==
    IF Len(c.items) = 0
    THEN [container |-> Container("empty", <<>>), checkoutDisabled |-> TRUE]
    ELSE [container |-> old, checkoutDisabled |-> FALSE]

\* A page as the browser hands it to its script.
FreshDom ==
    [navbar |-> FALSE, footer |-> FALSE, container |-> Container("initial", <<>>),
     checkoutDisabled |-> FALSE, summary |-> <<>>, errorShown |-> FALSE,
     listeners |-> FALSE, badge |-> NoElement, itemCount |-> NoElement,
     view |-> "none", fetches |-> 0, relatedView |-> "loading", related |-> <<>>]

NoNotice == [type |-> "none", msg |-> "none", name |-> Undef]
Notice(type, msg, name) == [type |-> type, msg |-> msg, name |-> name]

\* ------------------------------------------------------ cart.js: removal
\* removeItemFromCart splicing before it looks at the element: no guard,
\* and splice counts a negative index from the end.
RemoveItemResult_SpliceFirst(c, index) ==
    LET len == Len(c.items)
        start == IF index.n < 0 THEN (IF len + index.n < 0 THEN 0 ELSE len + index.n)
                 ELSE index.n
    IN  IF ~IsArray(c) \/ index.k # "num" \/ start >= len
        THEN [outcome |-> "threw", cart |-> c, name |-> Undef]
        ELSE [outcome |-> "removed",
              cart |-> CartValue(c.v, SubSeq(c.items, 1, start)
                                          \o SubSeq(c.items, start + 2, len)),
              name |-> c.items[start + 1].name]

\* The guard of removeItemFromCart: index < 0 || index >= cart.length.
\* A comparison with NaN, or with an undefined length, is false.
IndexRejected(index, c) ==
    \/ index.k = "num" /\ index.n < 0
    \/ index.k = "num" /\ IsArray(c) /\ index.n >= Len(c.items)

\* cart.splice(index): without a count, everything from index on goes.
Splice_ToEnd(items, index) == SubSeq(items, 1, index)

\* cart.splice(index, 1)
Splice(items, index) ==
    SubSeq(items, 1, index) \o SubSeq(items, index + 2, Len(items))

\* cart[index] is undefined: the cart is no array, or the index is not the
\* position of an element.
ElementUndefined(c, index) ==
    \/ ~IsArray(c)
    \/ index.k # "num"
    \/ index.n < 0
    \/ index.n >= Len(c.items)

\* removeItemFromCart(index) up to the save:
\*   "rejected" the guard returned
\*   "threw"    cart.length or cart[index].name raised a TypeError
\*   "removed"  the item was spliced out; name is its name
RemoveItemResult(c, index) ==
    IF IndexRejected(index, c)
    THEN [outcome |-> "rejected", cart |-> c, name |-> Undef]
    ELSE IF ElementUndefined(c, index)
    THEN [outcome |-> "threw", cart |-> c, name |-> Undef]
    ELSE [outcome |-> "removed",
          cart |-> CartValue(c.v, Splice(c.items, index.n)),
          name |-> c.items[index.n + 1].name]

\* ---------------------------------------------------------------- state
Tabs == {"t1", "t2"}
\* The tab of the single-tab specification.
SingleTab == {"t1"}

VARIABLES
    storage,         \* localStorage 'cart'
    page,            \* page[t]: the page tab t shows: "none", "detail", "cart"
    cart,            \* cart.js: cart
    subtotal,        \* cart.js: subtotal
    shipping,        \* cart.js: shipping
    total,           \* cart.js: total
    currentProduct,  \* detail.js: currentProduct (0 for null, else the id)
    dom,             \* the document of tab t
    notice,          \* the notification the last handler of tab t showed
    lastOp,          \* the last operation, with the state it started from
    catalog,         \* data.json as the server holds it
    allProducts,     \* script.js: allProducts
    currentProducts, \* script.js: currentProducts
    searchTimeout,   \* script.js: searchTimeout (0 for null, else a timer id)
    domCache,        \* script.js: domCache (TRUE: the element is cached)
    timers,          \* the timers setTimeout scheduled that are still pending
    inputs,          \* the values of the two search boxes
    app,             \* the listing page: its document and where its load is
    hist             \* the listing page's last handler and its counts;
                     \* during: the last input event came while the fetch
                     \* of data.json was in flight, and only timers and
                     \* the end of that fetch have run since

\* What script.js and the listing page add to the state.
listingVars ==
    <<catalog, allProducts, currentProducts, searchTimeout, domCache, timers,
      inputs, app, hist>>

vars ==
    <<storage, page, cart, subtotal, shipping, total, currentProduct, dom,
      notice, lastOp, listingVars>>

\* script.js as the browser loads it (lines 7-18) and index.html before
\* DOMContentLoaded.
FreshDomCache == [productsContainer |-> FALSE, searchInput |-> FALSE,
                  mobileSearchInput |-> FALSE, cartCount |-> FALSE]

NoContent == [k |-> "initial", rows |-> <<>>]

FreshApp ==
    [pc |-> "start", navbar |-> FALSE, hero |-> FALSE, searchListeners |-> FALSE,
     dropdownListeners |-> FALSE, products |-> NoContent, badge |-> NoElement,
     fetches |-> 0, toast |-> FALSE]

NoHist == [op |-> "none", arg |-> Undef, box |-> "none", outcome |-> "none",
           events |-> 0, bursts |-> 0, evals |-> 0, during |-> FALSE]

\* No listing page is open.
ListingIdle ==
    /\ catalog = <<>>
    /\ allProducts = <<>>
    /\ currentProducts = <<>>
    /\ searchTimeout = 0
    /\ domCache = FreshDomCache
    /\ timers = {}
    /\ inputs = [desktop |-> <<>>, mobile |-> <<>>]
    /\ app = FreshApp
    /\ hist = NoHist

Op(op, t, arg, outcome, saved) ==
    [op |-> op, tab |-> t, arg |-> arg, outcome |-> outcome, saved |-> saved,
     preStorage |-> storage, preCart |-> cart[t],
     preTotals |-> <<subtotal[t], shipping[t], total[t]>>,
     preNotice |-> notice[t]]

NoOp ==
    [op |-> "none", tab |-> "t1", arg |-> Undef, outcome |-> "none",
     saved |-> <<>>, preStorage |-> StAbsent, preCart |-> EmptyCart,
     preTotals |-> <<0, 0, 0>>, preNotice |-> NoNotice]

Init ==
    /\ storage \in InitialStorage
    /\ page = [t \in Tabs |-> "none"]
    /\ cart = [t \in Tabs |-> EmptyCart]
    /\ subtotal = [t \in Tabs |-> 0]
    /\ shipping = [t \in Tabs |-> 0]
    /\ total = [t \in Tabs |-> 0]
    /\ currentProduct = [t \in Tabs |-> 0]
    /\ dom = [t \in Tabs |-> FreshDom]
    /\ notice = [t \in Tabs |-> NoNotice]
    /\ lastOp = NoOp
    /\ ListingIdle

\* -------------------------------------------------------------- actions
\* Tab t loads cart.html. The script first calls updateCartCount, then
\* fetches the navbar (navOk) and the footer (footOk), and runs
\* initializeCart and setupEventListeners; an exception of initializeCart
\* ends in showError('Failed to load cart...') with no listener installed.
LoadCartPage(t, navOk, footOk) ==
    LET count == CartCountText(storage, InitialText)
        c == LoadCartFromStorage(storage)
        calc == CalculateCart(c, 0, 0)
        shown == DisplayCartItems(c, Container("initial", <<>>))
        tog == ToggleEmptyCartMessage(c, shown)
        loaded ==
            [FreshDom EXCEPT !.navbar = navOk, !.footer = footOk,
                             !.badge = IF navOk THEN count ELSE NoElement,
                             !.itemCount = count]
    IN  /\ page' = [page EXCEPT ![t] = "cart"]
        /\ cart' = [cart EXCEPT ![t] = c]
        /\ subtotal' = [subtotal EXCEPT ![t] = calc.subtotal]
        /\ shipping' = [shipping EXCEPT ![t] = calc.shipping]
        /\ total' = [total EXCEPT ![t] = calc.total]
        /\ currentProduct' = [currentProduct EXCEPT ![t] = 0]
        /\ dom' = [dom EXCEPT ![t] =
               IF calc.threw THEN [loaded EXCEPT !.errorShown = TRUE]
               ELSE [loaded EXCEPT
                        !.container = tog.container,
                        !.checkoutDisabled = tog.checkoutDisabled,
                        !.summary = SummaryTexts(calc.subtotal, calc.shipping, calc.total),
                        !.listeners = TRUE]]
        /\ notice' = [notice EXCEPT ![t] = NoNotice]
        /\ lastOp' = Op("loadCart", t, Undef, IF calc.threw THEN "failed" ELSE "ok", <<>>)
        /\ UNCHANGED storage

\* getProductIdFromURL: raw is the id parameter, null when the URL has
\* none. The result is null or a positive number.
GetProductIdFromURL(raw) ==
    IF ~Truthy(raw) THEN Null
    ELSE LET id == ParseInt(raw.s)
         IN  IF id.k = "nan" \/ id.n <= 0 THEN Null ELSE id

\* products.find(p => p.id === productId): the position of the first such
\* product, 0 when find gives undefined.
FindProduct(products, productId) ==
    IF \E i \in 1..Len(products) : StrictEq(products[i].id, productId)
    THEN CHOOSE i \in 1..Len(products) :
             /\ StrictEq(products[i].id, productId)
             /\ \A j \in 1..(i - 1) : ~StrictEq(products[j].id, productId)
    ELSE 0

\* The second argument of slice in loadRelatedProducts.
RelatedLimit == 4

\* Array.prototype.slice(0, end)
SliceFromStart(xs, end) == SubSeq(xs, 1, IF Len(xs) < end THEN Len(xs) ELSE end)

\* The related products without the test that leaves the current one out.
RelatedProducts_WithCurrent(products, category, currentProductId) ==
    LET Test(p) == StrictEq(p.category, category)
    IN  SliceFromStart(SelectSeq(products, Test), RelatedLimit)

\* loadRelatedProducts: products.filter(...).slice(0, 4)
RelatedProducts(products, category, currentProductId) ==
    LET Test(p) == StrictEq(p.category, category) /\ ~StrictEq(p.id, currentProductId)
    IN  SliceFromStart(SelectSeq(products, Test), RelatedLimit)

\* A card of the related section names its product and links to its page.
RelatedCard(product) ==
    [href |-> ToChars(product.id), name |-> ToChars(product.name)]

\* Tab t loads detail.html with the id parameter raw. products is what
\* data.json holds; first is how the fetch of loadProductDetails ends and
\* second how the one of loadRelatedProducts ends ("ok", or a failure).
\*   view         "notfound" after showProductNotFound, else "product"
\*   fetches      the fetches of data.json this load made
\*   relatedView  the related section: "loading" as detail.html has it,
\*                "rows", "none" (the no-related block) or "hidden"
OpenDetail(t, raw, navOk, footOk, products, first, second) ==
    LET productId == GetProductIdFromURL(raw)
        at == IF productId = Null \/ first # "ok" THEN 0
              ELSE FindProduct(products, productId)
        related == IF at = 0 \/ second # "ok" THEN <<>>
                   ELSE RelatedProducts(products, products[at].category, products[at].id)
    IN  /\ page' = [page EXCEPT ![t] = "detail"]
        /\ currentProduct' = [currentProduct EXCEPT ![t] =
               IF at = 0 THEN 0 ELSE products[at].id.n]
        /\ cart' = [cart EXCEPT ![t] = EmptyCart]
        /\ subtotal' = [subtotal EXCEPT ![t] = 0]
        /\ shipping' = [shipping EXCEPT ![t] = 0]
        /\ total' = [total EXCEPT ![t] = 0]
        /\ dom' = [dom EXCEPT ![t] =
               [FreshDom EXCEPT
                   !.navbar = navOk, !.footer = footOk,
                   !.badge = IF navOk THEN CartCountText(storage, InitialText)
                             ELSE NoElement,
                   !.view = IF at = 0 THEN "notfound" ELSE "product",
                   !.fetches = IF productId = Null THEN 0
                               ELSE IF at = 0 THEN 1 ELSE 2,
                   !.relatedView = IF at = 0 THEN "loading"
                                   ELSE IF second # "ok" THEN "hidden"
                                   ELSE IF related = <<>> THEN "none"
                                   ELSE "rows",
                   !.related = [i \in 1..Len(related) |-> RelatedCard(related[i])]]]
        /\ notice' = [notice EXCEPT ![t] = NoNotice]
        /\ lastOp' = Op("loadDetail", t, raw,
                        IF at = 0 THEN "notfound" ELSE "ok", <<>>)
        /\ UNCHANGED storage

\* Tab t loads detail.html?id=<id> for a product of the catalog, both
\* fetches of data.json succeeding.
LoadDetailPage(t, id, navOk, footOk) ==
    OpenDetail(t, Str(NumToChars(id)), navOk, footOk, Products, "ok", "ok")

\* The "Add to Cart" button of tab t's detail page: addToCart(product).
AddToCart(t) ==
    /\ page[t] = "detail"
    /\ dom[t].view = "product"
    /\ LET product == ButtonProduct(Products[currentProduct[t]])
           r == AddToCartResult(storage, product)
       IN  /\ storage' = r.storage
           /\ dom' = [dom EXCEPT ![t].badge =
                  IF r.outcome = "added" /\ dom[t].navbar
                  THEN CartCountText(r.storage, dom[t].badge)
                  ELSE dom[t].badge]
           /\ notice' = [notice EXCEPT ![t] =
                  CASE r.outcome = "added" -> Notice("success", "added", product.name)
                    [] r.outcome = "already" -> Notice("warning", "already", product.name)
                    [] OTHER -> Notice("error", "failed", Undef)]
           /\ lastOp' = Op("add", t, product.id, r.outcome, r.saved)
    /\ UNCHANGED <<page, cart, subtotal, shipping, total, currentProduct>>

\* removeItemFromCart reading the key again before it splices, so that it
\* removes from what the other tabs saved.
RemoveEffect_FromStorage(t, index) ==
    LET r == RemoveItemResult(LoadCartFromStorage(storage), index)
        saved == JSONstringify(r.cart.items)
        calc == CalculateCart(r.cart, shipping[t], total[t])
        tog == ToggleEmptyCartMessage(r.cart, DisplayCartItems(r.cart, dom[t].container))
    IN  IF r.outcome # "removed"
        THEN /\ lastOp' = Op("remove", t, index, r.outcome, <<>>)
             /\ UNCHANGED <<storage, page, cart, subtotal, shipping, total,
                            currentProduct, dom, notice>>
        ELSE /\ cart' = [cart EXCEPT ![t] = r.cart]
             /\ storage' = saved
             /\ subtotal' = [subtotal EXCEPT ![t] = calc.subtotal]
             /\ shipping' = [shipping EXCEPT ![t] = calc.shipping]
             /\ total' = [total EXCEPT ![t] = calc.total]
             /\ dom' = [dom EXCEPT
                    ![t].container = tog.container,
                    ![t].checkoutDisabled = tog.checkoutDisabled,
                    ![t].summary = SummaryTexts(calc.subtotal, calc.shipping, calc.total)]
             /\ notice' = [notice EXCEPT ![t] = Notice("success", "removed", r.name)]
             /\ lastOp' = Op("remove", t, index, r.outcome, r.cart.items)
             /\ UNCHANGED <<page, currentProduct>>

\* removeItemFromCart(index) in tab t.
RemoveEffect(t, index) ==
    LET r == RemoveItemResult(cart[t], index)
        saved == JSONstringify(r.cart.items)
        calc == CalculateCart(r.cart, shipping[t], total[t])
        shown == DisplayCartItems(r.cart, dom[t].container)
        tog == ToggleEmptyCartMessage(r.cart, shown)
    IN  IF r.outcome # "removed"
        THEN /\ lastOp' = Op("remove", t, index, r.outcome, <<>>)
             /\ UNCHANGED <<storage, page, cart, subtotal, shipping, total,
                            currentProduct, dom, notice>>
        ELSE /\ cart' = [cart EXCEPT ![t] = r.cart]
             /\ storage' = saved
             /\ subtotal' = [subtotal EXCEPT ![t] = calc.subtotal]
             /\ shipping' = [shipping EXCEPT ![t] = calc.shipping]
             /\ total' = [total EXCEPT ![t] = calc.total]
             /\ dom' = [dom EXCEPT
                    ![t].container = tog.container,
                    ![t].checkoutDisabled = tog.checkoutDisabled,
                    ![t].summary = SummaryTexts(calc.subtotal, calc.shipping, calc.total),
                    ![t].badge = IF dom[t].navbar
                                 THEN CartCountText(saved, dom[t].badge)
                                 ELSE dom[t].badge,
                    ![t].itemCount = CartCountText(saved, dom[t].itemCount)]
             /\ notice' = [notice EXCEPT ![t] = Notice("success", "removed", r.name)]
             /\ lastOp' = Op("remove", t, index, r.outcome, r.cart.items)
             /\ UNCHANGED <<page, currentProduct>>

\* A click on the remove button of a rendered row: the delegated listener
\* calls removeItemFromCart(parseInt(data-index)).
ClickRemove(t, row) ==
    /\ page[t] = "cart"
    /\ dom[t].listeners
    /\ row \in 1..Len(dom[t].container.rows)
    /\ RemoveEffect(t, ParseInt(dom[t].container.rows[row].dataIndex))

\* Any other call of removeItemFromCart on the cart page.
\* The indexes tried: negative, valid, the length and beyond it, and NaN.
IndexInputs == {Num(i) : i \in (0 - 1)..(NumProducts + 1)} \cup {NaN}

CallRemove(t, index) ==
    /\ page[t] = "cart"
    /\ RemoveEffect(t, index)

Next ==
    /\ \E t \in SingleTab :
           \/ \E navOk \in BOOLEAN, footOk \in BOOLEAN : LoadCartPage(t, navOk, footOk)
           \/ \E id \in ProductIds, navOk \in BOOLEAN, footOk \in BOOLEAN :
                  LoadDetailPage(t, id, navOk, footOk)
           \/ AddToCart(t)
           \/ \E row \in 1..NumProducts : ClickRemove(t, row)
           \/ \E index \in IndexInputs : CallRemove(t, index)
    /\ UNCHANGED listingVars

Spec == Init /\ [][Next]_vars

\* ------------------------------------------- calculateCart on its own
\* The carts calculateCart is applied to in SpecCalc: up to MaxCartLen line
\* items with ids 1, 2, ... and each price a number or a currency string.
CalcPrices == {Num(120), Str(<<"$", "4", "5">>)}

CalcLineItems == [i \in 1..MaxCartLen |-> CartProduct(Product(i))]

CalcItem(i, price) == [CalcLineItems[i] EXCEPT !.price = price]

CalcCarts ==
    UNION {{CartValue(Arr(<<>>), [i \in 1..n |-> CalcItem(i, f[i])]) :
               f \in [1..n -> CalcPrices]} : n \in 0..MaxCartLen}

InitCalc ==
    /\ storage = StAbsent
    /\ page = [t \in Tabs |-> IF t \in SingleTab THEN "cart" ELSE "none"]
    /\ \E c \in CalcCarts :
           cart = [t \in Tabs |-> IF t \in SingleTab THEN c ELSE EmptyCart]
    /\ subtotal = [t \in Tabs |-> 0]
    /\ shipping = [t \in Tabs |-> 0]
    /\ total = [t \in Tabs |-> 0]
    /\ currentProduct = [t \in Tabs |-> 0]
    /\ dom = [t \in Tabs |-> FreshDom]
    /\ notice = [t \in Tabs |-> NoNotice]
    /\ lastOp = NoOp
    /\ ListingIdle

\* calculateCart() on the cart of tab t.
Calculate(t) ==
    /\ lastOp.op = "none"
    /\ LET calc == CalculateCart(cart[t], shipping[t], total[t])
       IN  /\ subtotal' = [subtotal EXCEPT ![t] = calc.subtotal]
           /\ shipping' = [shipping EXCEPT ![t] = calc.shipping]
           /\ total' = [total EXCEPT ![t] = calc.total]
    /\ lastOp' = Op("calc", t, Undef, "ok", <<>>)
    /\ UNCHANGED <<storage, page, cart, currentProduct, dom, notice>>

NextCalc == (\E t \in SingleTab : Calculate(t)) /\ UNCHANGED listingVars

SpecCalc == InitCalc /\ [][NextCalc]_vars

\* ------------------------------------------------- several tabs at once
\* Every tab of Tabs loads pages and runs its handlers against the one
\* localStorage; a handler runs to its end before the next one starts. The
\* key starts absent or holding an empty cart.
InitTabs ==
    /\ storage \in {StAbsent, StCart(<<>>)}
    /\ page = [t \in Tabs |-> "none"]
    /\ cart = [t \in Tabs |-> EmptyCart]
    /\ subtotal = [t \in Tabs |-> 0]
    /\ shipping = [t \in Tabs |-> 0]
    /\ total = [t \in Tabs |-> 0]
    /\ currentProduct = [t \in Tabs |-> 0]
    /\ dom = [t \in Tabs |-> FreshDom]
    /\ notice = [t \in Tabs |-> NoNotice]
    /\ lastOp = NoOp
    /\ ListingIdle

NextTabs ==
    /\ \E t \in Tabs :
           \/ LoadCartPage(t, TRUE, TRUE)
           \/ \E id \in 1..TabProducts : LoadDetailPage(t, id, TRUE, TRUE)
           \/ AddToCart(t)
           \/ \E row \in 1..TabProducts : ClickRemove(t, row)
    /\ UNCHANGED listingVars

SpecTabs == InitTabs /\ [][NextTabs]_vars

\* ------------------------------------------------ script.js: the listing
UpperChars ==
    <<"A", "B", "C", "D", "E", "F", "G", "H", "I", "J", "K", "L", "M",
      "N", "O", "P", "Q", "R", "S", "T", "U", "V", "W", "X", "Y", "Z">>

LowerChars ==
    <<"a", "b", "c", "d", "e", "f", "g", "h", "i", "j", "k", "l", "m",
      "n", "o", "p", "q", "r", "s", "t", "u", "v", "w", "x", "y", "z">>

UpperSet == {UpperChars[i] : i \in 1..26}

LowerOf == [c \in UpperSet |-> LowerChars[CHOOSE i \in 1..26 : UpperChars[i] = c]]

\* String.prototype.toLowerCase
ToLowerCase(cs) ==
    [i \in 1..Len(cs) |-> IF cs[i] \in UpperSet THEN LowerOf[cs[i]] ELSE cs[i]]

RECURSIVE TrimEnd(_)
TrimEnd(cs) ==
    IF cs # <<>> /\ cs[Len(cs)] = " " THEN TrimEnd(SubSeq(cs, 1, Len(cs) - 1)) ELSE cs

\* String.prototype.trim
Trim(cs) == TrimEnd(SkipSpaces(cs))

\* String.prototype.includes
Includes(hay, needle) ==
    \E i \in 0..(Len(hay) - Len(needle)) : SubSeq(hay, i + 1, i + Len(needle)) = needle

\* The predicate of filterProducts leaving the summary out.
MatchesQuery_NoSummary(product, query) ==
    \/ Includes(ToLowerCase(product.name.s), query)
    \/ Includes(ToLowerCase(product.brand.s), query)
    \/ Includes(ToLowerCase(product.category.s), query)

\* The predicate of allProducts.filter in filterProducts.
MatchesQuery(product, query) ==
    \/ Includes(ToLowerCase(product.name.s), query)
    \/ Includes(ToLowerCase(product.brand.s), query)
    \/ Includes(ToLowerCase(product.category.s), query)
    \/ Truthy(product.summary) /\ Includes(ToLowerCase(product.summary.s), query)

\* filterProducts(query): the list it stores in currentProducts and shows.
FilterProducts(all, query) ==
    LET Test(p) == MatchesQuery(p, query)
    IN  IF query = <<>> THEN all ELSE SelectSeq(all, Test)

\* The data-category value of the sentinel.
CategoryAll == Str(<<"A", "l", "l">>)

\* The category filter comparing without regard to case.
FilterByCategory_IgnoreCase(all, category) ==
    LET Test(p) == ToLowerCase(p.category.s) = ToLowerCase(category.s)
    IN  IF StrictEq(category, CategoryAll) THEN all ELSE SelectSeq(all, Test)

\* category === 'All' ? allProducts : allProducts.filter(p => p.category === category)
FilterByCategory(all, category) ==
    LET Test(p) == StrictEq(p.category, category)
    IN  IF StrictEq(category, CategoryAll) THEN all ELSE SelectSeq(all, Test)

\* createProductCard: a card names its product and links to its detail page.
ProductCard(product) ==
    [href |-> ToChars(product.id), name |-> ToChars(product.name)]

\* The #products element: as index.html has it ("initial"), the spinner of
\* loadProducts ("loading"), the cards of showProducts ("rows"), its "No
\* products found" block ("empty"), or showProductsError's block ("error").
Content(kind, rows) == [k |-> kind, rows |-> rows]

\* showProducts(products): nothing happens without the cached container.
ShowProducts(products, cached, old) ==
    IF ~cached THEN old
    ELSE IF Len(products) = 0 THEN Content("empty", <<>>)
    ELSE Content("rows", [i \in 1..Len(products) |-> ProductCard(products[i])])

\* showProductsError()
ShowProductsError(cached, old) == IF ~cached THEN old ELSE Content("error", <<>>)

\* updateCartCount of script.js: the text of the navbar badge.
ListingCartCount(st, old) == CartCountText(st, old)

\* The catalogs data.json may hold: no product, or the products of
\* ProductIds in any order.
RECURSIVE Perms(_)
Perms(S) ==
    IF S = {} THEN {<<>>}
    ELSE UNION {{<<x>> \o q : q \in Perms(S \ {x})} : x \in S}

Catalogs ==
    {[i \in 1..Len(ids) |-> Products[ids[i]]] :
        ids \in {<<>>} \cup Perms(ProductIds)}

\* What a search box holds after an input event: nothing, a blank, and
\* texts in either case, one of them with blanks around it.
Queries ==
    {<<>>, <<" ">>, <<"s", "2">>, <<" ", "C", "N", " ">>, <<"z">>}

\* The data-category values of the navbar's links and dropdown items.
CategoryInputs ==
    {CategoryAll, Str(<<"C", "a", "m">>), Str(<<"L", "n", "s">>), Str(<<"c", "a", "m">>)}

SearchBoxes == {"desktop", "mobile"}

\* The ways the fetch of data.json ends: a body that parses, a rejected
\* fetch, a status that is not ok, a body that is no JSON.
FetchOutcomes == {"ok", "network", "status", "parse"}

Hist(op, arg) ==
    [hist EXCEPT !.op = op, !.arg = arg, !.outcome = "none",
                 !.during = hist.during /\ op \in {"fire", "catalog"}]

cartVars ==
    <<storage, page, cart, subtotal, shipping, total, currentProduct, dom,
      notice, lastOp>>

InitListing ==
    /\ storage = StCart(<<>>)
    /\ page = [t \in Tabs |-> "none"]
    /\ cart = [t \in Tabs |-> EmptyCart]
    /\ subtotal = [t \in Tabs |-> 0]
    /\ shipping = [t \in Tabs |-> 0]
    /\ total = [t \in Tabs |-> 0]
    /\ currentProduct = [t \in Tabs |-> 0]
    /\ dom = [t \in Tabs |-> FreshDom]
    /\ notice = [t \in Tabs |-> NoNotice]
    /\ lastOp = NoOp
    /\ catalog \in Catalogs
    /\ allProducts = <<>>
    /\ currentProducts = <<>>
    /\ searchTimeout = 0
    /\ domCache = FreshDomCache
    /\ timers = {}
    /\ inputs = [b \in SearchBoxes |-> <<>>]
    /\ app = FreshApp
    /\ hist = NoHist

\* initializeApp up to the end of loadNavbar: the fetch of navbar.html has
\* ended. Only with the navbar in place does loadNavbar cache the elements
\* and install the search and category-link listeners. loadHero then starts.
NavbarArrives(ok) ==
    /\ app.pc = "start"
    /\ app' = [app EXCEPT !.pc = "hero", !.navbar = ok, !.searchListeners = ok]
    /\ domCache' = IF ok
                   THEN [productsContainer |-> TRUE, searchInput |-> TRUE,
                         mobileSearchInput |-> TRUE, cartCount |-> TRUE]
                   ELSE domCache
    /\ hist' = Hist("navbar", Undef)
    /\ UNCHANGED <<catalog, allProducts, currentProducts, searchTimeout, timers, inputs>>

\* The fetch of hero.html has ended; loadProducts starts: it puts its
\* spinner in #products and fetches data.json.
HeroArrives(ok) ==
    /\ app.pc = "hero"
    /\ app' = [app EXCEPT !.pc = "catalog", !.hero = ok,
                          !.products = Content("loading", <<>>),
                          !.fetches = app.fetches + 1]
    /\ hist' = Hist("hero", Undef)
    /\ UNCHANGED <<catalog, allProducts, currentProducts, searchTimeout, domCache,
                   timers, inputs>>

\* The fetch of data.json has ended: the rest of loadProducts, then
\* setupCategories and updateCartCount.
CatalogArrives(outcome) ==
    /\ app.pc = "catalog"
    /\ allProducts' = IF outcome = "ok" THEN catalog ELSE allProducts
    /\ currentProducts' = IF outcome = "ok" THEN catalog ELSE currentProducts
    /\ app' = [app EXCEPT
           !.pc = "done",
           !.products = IF outcome = "ok"
                        THEN ShowProducts(catalog, domCache.productsContainer, app.products)
                        ELSE ShowProductsError(domCache.productsContainer, app.products),
           !.dropdownListeners = app.navbar,
           !.badge = IF app.navbar THEN ListingCartCount(storage, app.badge)
                     ELSE app.badge]
    /\ hist' = [Hist("catalog", Undef) EXCEPT !.outcome = outcome]
    /\ UNCHANGED <<catalog, searchTimeout, domCache, timers, inputs>>

\* handleSearch without its clearTimeout: the timer of the event before
\* stays pending.
HandleSearch_NoClear(box, v) ==
    /\ app.searchListeners
    /\ hist.events < MaxInputs
    /\ inputs' = [inputs EXCEPT ![box] = v]
    /\ timers' = timers \cup {[id |-> hist.events + 1, box |-> box]}
    /\ searchTimeout' = hist.events + 1
    /\ hist' = [Hist("input", Str(v)) EXCEPT !.box = box,
                            !.during = (app.pc = "catalog"),
                            !.events = hist.events + 1,
                            !.bursts = IF timers = {} THEN hist.bursts + 1
                                       ELSE hist.bursts]
    /\ UNCHANGED <<catalog, allProducts, currentProducts, domCache, app>>

\* An input event of a search box whose value is now v: handleSearch.
HandleSearch(box, v) ==
    /\ app.searchListeners
    /\ hist.events < MaxInputs
    /\ inputs' = [inputs EXCEPT ![box] = v]
    /\ timers' = {tm \in timers : tm.id # searchTimeout}
                     \cup {[id |-> hist.events + 1, box |-> box]}
    /\ searchTimeout' = hist.events + 1
    /\ hist' = [Hist("input", Str(v)) EXCEPT !.box = box,
                            !.during = (app.pc = "catalog"),
                            !.events = hist.events + 1,
                            !.bursts = IF timers = {} THEN hist.bursts + 1
                                       ELSE hist.bursts]
    /\ UNCHANGED <<catalog, allProducts, currentProducts, domCache, app>>

\* The delay of a pending timer has passed: the callback handleSearch gave
\* setTimeout reads its event's box and calls filterProducts.
TimerFires(tm) ==
    /\ tm \in timers
    /\ timers' = timers \ {tm}
    /\ LET query == Trim(ToLowerCase(inputs[tm.box]))
           shown == FilterProducts(allProducts, query)
       IN  /\ currentProducts' = shown
           /\ app' = [app EXCEPT !.products =
                  ShowProducts(shown, domCache.productsContainer, app.products)]
           /\ hist' = [Hist("fire", Str(inputs[tm.box])) EXCEPT
                           !.box = tm.box, !.evals = hist.evals + 1]
    /\ UNCHANGED <<catalog, allProducts, searchTimeout, domCache, inputs>>

\* A click on a navbar link that has data-category: handleCategoryFilter.
\* isHome: the link's href is 'index.html'.
CategoryLinkClick(category, isHome) ==
    /\ app.searchListeners
    /\ LET shown == FilterByCategory(allProducts, category)
       IN  IF ~isHome
           THEN UNCHANGED <<currentProducts, app>>
           ELSE /\ currentProducts' = shown
                /\ app' = [app EXCEPT !.products =
                       ShowProducts(shown, domCache.productsContainer, app.products)]
    /\ hist' = IF isHome THEN Hist("navlink", category)
               ELSE Hist("otherlink", Undef)
    /\ UNCHANGED <<catalog, allProducts, searchTimeout, domCache, timers, inputs>>

\* A click on a .category-filter item: the listener of setupCategories.
DropdownClick(category) ==
    /\ app.dropdownListeners
    /\ app' = [app EXCEPT !.products =
           ShowProducts(FilterByCategory(allProducts, category),
                        domCache.productsContainer, app.products)]
    /\ hist' = Hist("dropdown", category)
    /\ UNCHANGED <<catalog, allProducts, currentProducts, searchTimeout, domCache,
                   timers, inputs>>

\* The "Show All Products" button of the "No products found" block.
ShowAllClick ==
    /\ app.products.k = "empty"
    /\ app' = [app EXCEPT !.products =
           ShowProducts(allProducts, domCache.productsContainer, app.products)]
    /\ hist' = Hist("showall", Undef)
    /\ UNCHANGED <<catalog, allProducts, currentProducts, searchTimeout, domCache,
                   timers, inputs>>

NextListing ==
    /\ \/ \E ok \in BOOLEAN : NavbarArrives(ok)
       \/ \E ok \in BOOLEAN : HeroArrives(ok)
       \/ \E outcome \in FetchOutcomes : CatalogArrives(outcome)
       \/ \E box \in SearchBoxes, v \in Queries : HandleSearch(box, v)
       \/ \E tm \in timers : TimerFires(tm)
       \/ \E category \in CategoryInputs, isHome \in BOOLEAN :
              CategoryLinkClick(category, isHome)
       \/ \E category \in CategoryInputs : DropdownClick(category)
       \/ ShowAllClick
    /\ UNCHANGED cartVars

SpecListing == InitListing /\ [][NextListing]_vars

\* -------------------------------------------- the detail page on its own
\* The categories of the catalogs of SpecDetail.
DetailCategories == {Str(<<"C", "a", "m">>), Str(<<"L", "n", "s">>)}

DetailProducts == [i \in 1..MaxCatalog |-> Product(i)]

\* The catalogs a detail page fetches in SpecDetail: up to MaxCatalog
\* products, ids ascending or descending, each in one of two categories.
DetailCatalogs ==
    UNION {{[i \in 1..n |->
                [DetailProducts[IF up THEN i ELSE n + 1 - i] EXCEPT !.category = f[i]]] :
               f \in [1..n -> DetailCategories], up \in BOOLEAN} : n \in 0..MaxCatalog}

\* The id parameters tried: none, empty, a word, zero, a negative number,
\* ids of the catalog or beyond it, and a number followed by a letter.
IdParams ==
    {Null, Str(<<>>), Str(<<"a", "b", "c">>), Str(<<"0">>), Str(<<"-", "1">>),
     Str(<<"1">>), Str(<<"3">>), Str(<<"2", "x">>)}

InitDetail ==
    /\ storage = StCart(<<>>)
    /\ page = [t \in Tabs |-> "none"]
    /\ cart = [t \in Tabs |-> EmptyCart]
    /\ subtotal = [t \in Tabs |-> 0]
    /\ shipping = [t \in Tabs |-> 0]
    /\ total = [t \in Tabs |-> 0]
    /\ currentProduct = [t \in Tabs |-> 0]
    /\ dom = [t \in Tabs |-> FreshDom]
    /\ notice = [t \in Tabs |-> NoNotice]
    /\ lastOp = NoOp
    /\ catalog \in DetailCatalogs
    /\ allProducts = <<>>
    /\ currentProducts = <<>>
    /\ searchTimeout = 0
    /\ domCache = FreshDomCache
    /\ timers = {}
    /\ inputs = [b \in SearchBoxes |-> <<>>]
    /\ app = FreshApp
    /\ hist = NoHist

\* Tab t, showing nothing yet, loads detail.html with some id parameter.
VisitDetail(t) ==
    /\ page[t] = "none"
    /\ \E raw \in IdParams, navOk \in BOOLEAN, first \in FetchOutcomes,
          second \in {"ok", "network"} :
           OpenDetail(t, raw, navOk, navOk, catalog, first, second)
    /\ UNCHANGED listingVars

NextDetail == \E t \in SingleTab : VisitDetail(t)

SpecDetail == InitDetail /\ [][NextDetail]_vars

\* ---------------------------------------------------------------- claims
\* The tab of the last operation.
OpTab == lastOp.tab

\* The ids of the line items a stored cart holds, as numbers.
StoredIds(st) == [i \in 1..Len(st.items) |-> ParseValue(st.items[i].id)]

NoRepeat(seq) == \A i, j \in 1..Len(seq) : i # j => seq[i] # seq[j]

\* C1: after any sequence of add-to-cart and remove-by-index operations in
\* one tab, starting from an absent or empty stored cart (or from any other
\* initial value), the persisted cart never holds two line items with the
\* same id.
C1_NoDuplicateIds == storage.k = "cart" => NoRepeat(StoredIds(storage))

\* C1 witness: a removal has left a stored cart of two or more line items.
C1_Witness ==
    /\ lastOp.op = "remove"
    /\ lastOp.outcome = "removed"
    /\ storage.k = "cart"
    /\ Len(storage.items) >= 2

\* C2: for a stored value that is absent or is no serialized cart array (a
\* text that is no JSON, or JSON that is no array), cart page initialization
\* ends with an empty cart, zero totals and the empty-cart view, and never
\* in the 'Failed to load cart' error state.
C2_CorruptLoadsAsEmpty ==
    (lastOp.op = "loadCart" /\ lastOp.preStorage.k # "cart") =>
        /\ cart[OpTab] = EmptyCart
        /\ subtotal[OpTab] = 0 /\ shipping[OpTab] = 0 /\ total[OpTab] = 0
        /\ dom[OpTab].container.k = "empty"
        /\ ~dom[OpTab].errorShown

\* C3: when the stored value is not parseable, add-to-cart treats storage
\* as empty: afterwards the key holds exactly the added product's line item
\* and no error notification is shown.
C3_UnparseableAddRecovers ==
    (lastOp.op = "add" /\ lastOp.preStorage.k \in {"empty", "garbage"}) =>
        /\ storage.k = "cart"
        /\ StoredIds(storage) = <<lastOp.arg>>
        /\ notice[OpTab].type # "error"

\* Whether the stored cart st holds a line item with the id.
IdPresent(st, id) ==
    st.k = "cart" /\ \E i \in 1..Len(st.items) : ParseValue(st.items[i].id) = id

CountId(st, id) ==
    Cardinality({i \in 1..Len(st.items) : ParseValue(st.items[i].id) = id})

\* C4: adding a product whose id is already in the stored cart is a no-op:
\* the outcome is the 'already in your cart' warning and the stored cart
\* keeps the same items in the same order; and an add of the product that
\* the previous operation added (or found present) leaves exactly one line
\* item for it.
C4_AddPresentIsNoOp ==
    [][lastOp'.op = "add" =>
          /\ IdPresent(storage, lastOp'.arg) =>
                /\ lastOp'.outcome = "already"
                /\ notice'[lastOp'.tab].type = "warning"
                /\ notice'[lastOp'.tab].msg = "already"
                /\ storage' = storage
          /\ (/\ lastOp.op = "add"
              /\ lastOp.arg = lastOp'.arg
              /\ lastOp.outcome \in {"added", "already"}) =>
                /\ lastOp'.outcome = "already"
                /\ CountId(storage', lastOp'.arg) = 1]_vars

\* C4 witness: the second of two adds of one product ended in the warning.
C4_Witness ==
    /\ lastOp.op = "add"
    /\ lastOp.outcome = "already"
    /\ notice[OpTab].type = "warning"
    /\ CountId(storage, lastOp.arg) = 1
    /\ Len(storage.items) >= 2

\* The stored line item j is the one of product i: the product's fields
\* without details, displayPrice being the product's when it has one.
IsLineItemOf(j, i) ==
    /\ DOMAIN j = ItemFields
    /\ \A f \in ItemFields \ {"displayPrice"} : ParseValue(j[f]) = Products[i][f]
    /\ Products[i].displayPrice.k = "str" =>
           ParseValue(j.displayPrice) = Products[i].displayPrice

\* C5: adding a product whose id is absent from the stored cart (the key
\* absent counting as the empty cart) appends exactly one line item for it
\* at the end, leaves every stored line item as it was and where it was,
\* saves the result and reports 'added'.
C5_AddAbsentAppends ==
    (/\ lastOp.op = "add"
     /\ lastOp.preStorage.k \in {"absent", "cart"}
     /\ ~IdPresent(lastOp.preStorage, lastOp.arg)) =>
        /\ lastOp.outcome = "added"
        /\ notice[OpTab].type = "success" /\ notice[OpTab].msg = "added"
        /\ storage.k = "cart"
        /\ Len(storage.items) = Len(lastOp.preStorage.items) + 1
        /\ \A i \in 1..Len(lastOp.preStorage.items) :
               storage.items[i] = lastOp.preStorage.items[i]
        /\ IsLineItemOf(storage.items[Len(storage.items)], lastOp.arg.n)

\* C5 witness: a product was added behind two stored line items.
C5_Witness ==
    /\ lastOp.op = "add"
    /\ lastOp.outcome = "added"
    /\ lastOp.preStorage.k = "cart"
    /\ Len(lastOp.preStorage.items) = 2
    /\ Len(storage.items) = 3

\* seq without its element at position pos (from 0).
RemoveAt(seq, pos) ==
    [j \in 1..(Len(seq) - 1) |-> IF j <= pos THEN seq[j] ELSE seq[j + 1]]

\* The line items read back from the key.
ReadBack(st) == JSONparse(st).items

ValidIndex(index, c) ==
    IsArray(c) /\ index.k = "num" /\ index.n >= 0 /\ index.n < Len(c.items)

\* C6: remove(index) with 0 <= index < cart length deletes exactly the line
\* item at that position and keeps the others in order, saves the result
\* and reports the removed item's name.
C6_RemoveValidIndex ==
    (lastOp.op = "remove" /\ ValidIndex(lastOp.arg, lastOp.preCart)) =>
        /\ lastOp.outcome = "removed"
        /\ cart[OpTab].items = RemoveAt(lastOp.preCart.items, lastOp.arg.n)
        /\ Len(cart[OpTab].items) = Len(lastOp.preCart.items) - 1
        /\ storage.k = "cart"
        /\ ReadBack(storage) = cart[OpTab].items
        /\ notice[OpTab].type = "success" /\ notice[OpTab].msg = "removed"
        /\ notice[OpTab].name = lastOp.preCart.items[lastOp.arg.n + 1].name

\* C6 witness: the middle one of three line items was removed.
C6_Witness ==
    /\ lastOp.op = "remove"
    /\ lastOp.outcome = "removed"
    /\ Len(lastOp.preCart.items) = 3
    /\ lastOp.arg = Num(1)
    /\ Len(cart[OpTab].items) = 2

\* C7: remove(index) with an index that is no valid position (negative, at
\* or past the cart length, or NaN) leaves the in-memory cart, the stored
\* cart and the totals as they were and shows no 'Removed' notification.
C7_RemoveInvalidIndex ==
    (lastOp.op = "remove" /\ ~ValidIndex(lastOp.arg, lastOp.preCart)) =>
        /\ lastOp.outcome # "removed"
        /\ cart[OpTab] = lastOp.preCart
        /\ storage = lastOp.preStorage
        /\ <<subtotal[OpTab], shipping[OpTab], total[OpTab]>> = lastOp.preTotals
        /\ notice[OpTab] = lastOp.preNotice

\* C7 witness: a removal at index -1, and one at NaN, of a cart of two.
C7_Witness ==
    /\ lastOp.op = "remove"
    /\ lastOp.arg \in {Num(0 - 1), NaN}
    /\ IsArray(lastOp.preCart)
    /\ Len(lastOp.preCart.items) = 2
    /\ Len(cart[OpTab].items) = 2

\* The shipping tier of n line items, as the specification tabulates it.
ShippingTier(n) ==
    CASE n = 0 -> 0
      [] n = 1 -> 170
      [] n = 2 -> 220
      [] n >= 3 /\ n <= 5 -> 270
      [] n >= 6 -> 350

\* C8: shipping is a step function of the number n of line items alone:
\* 0 for n = 0, 170 for n = 1, 220 for n = 2, 270 for 3 <= n <= 5 and 350
\* for n >= 6, whatever the prices.
C8_ShippingTiers ==
    lastOp.op = "calc" => shipping[OpTab] = ShippingTier(Len(cart[OpTab].items))

\* C8 witness: calculateCart has priced a cart of more than six line items.
C8_Witness ==
    /\ lastOp.op = "calc"
    /\ Len(cart[OpTab].items) > 6
    /\ shipping[OpTab] = 350

\* A currency text: an optional leading "$", then one or more digits.
CurrencyDigits(cs) == IF cs # <<>> /\ Head(cs) = "$" THEN Tail(cs) ELSE cs

IsCurrencyText(cs) ==
    /\ CurrencyDigits(cs) # <<>>
    /\ \A i \in 1..Len(CurrencyDigits(cs)) : CurrencyDigits(cs)[i] \in DigitSet

RECURSIVE DecimalOf(_)
DecimalOf(ds) ==
    IF ds = <<>> THEN 0
    ELSE (10 * DecimalOf(SubSeq(ds, 1, Len(ds) - 1))) + DigitValues[ds[Len(ds)]]

\* The price the specification gives a line item: its number, the value of
\* its currency text, and 0 when the price is missing or cannot be parsed.
ClaimedPrice(item) ==
    CASE item.price.k = "num" -> item.price.n
      [] item.price.k = "str" /\ IsCurrencyText(item.price.s) ->
             DecimalOf(CurrencyDigits(item.price.s))
      [] OTHER -> 0

RECURSIVE ClaimedSubtotal(_)
ClaimedSubtotal(items) ==
    IF items = <<>> THEN 0
    ELSE ClaimedPrice(Head(items)) + ClaimedSubtotal(Tail(items))

C10_RoundTrip ==
    /\ lastOp.outcome \in {"added", "removed"} =>
           /\ storage.k = "cart"
           /\ ReadBack(storage) = lastOp.saved
    /\ storage.k = "cart" =>
           ReadBack(JSONstringify(ReadBack(storage))) = ReadBack(storage)

\* C10 witness: a saved cart holds a line item with no summary, which the
\* text leaves out.
C10_Witness ==
    /\ lastOp.outcome = "added"
    /\ \E i \in 1..Len(lastOp.saved) : lastOp.saved[i].summary = Undef
    /\ \E i \in 1..Len(storage.items) : storage.items[i].summary = Absent

\* The ids of a sequence of line items.
ItemIds(items) == [i \in 1..Len(items) |-> items[i].id]

InSeq(x, seq) == \E i \in 1..Len(seq) : seq[i] = x

\* The key no longer holds what the cart page of the last operation had in
\* memory when the operation started: another tab wrote in between.
ChangedElsewhere == ReadBack(lastOp.preStorage) # lastOp.preCart.items

\* C11: when another tab has changed the stored cart since the cart page
\* loaded its own, the page's next successful remove writes its in-memory
\* cart minus the removed item over the key: whatever the other tab saved is
\* gone, nothing is merged and the page reports an ordinary removal.
C11_LastWriterWins ==
    (lastOp.op = "remove" /\ lastOp.outcome = "removed" /\ ChangedElsewhere) =>
        /\ storage.k = "cart"
        /\ ReadBack(storage) = RemoveAt(lastOp.preCart.items, lastOp.arg.n)
        /\ \A i \in 1..Len(storage.items) :
               InSeq(ReadBack(storage)[i], lastOp.preCart.items)
        /\ cart[OpTab].items = ReadBack(storage)
        /\ notice[OpTab].type = "success" /\ notice[OpTab].msg = "removed"

\* C11 witness: a remove on a cart page has discarded a line item another
\* tab had added to the key after the page loaded.
C11_Witness ==
    /\ lastOp.op = "remove"
    /\ lastOp.outcome = "removed"
    /\ \E i \in 1..Len(lastOp.preStorage.items) :
           LET id == StoredIds(lastOp.preStorage)[i]
           IN  /\ ~InSeq(id, ItemIds(lastOp.preCart.items))
               /\ ~InSeq(id, StoredIds(storage))

\* C20: from an absent or empty stored cart, whatever the interleaving of
\* adds on detail pages and removes on cart pages in several tabs, each cart
\* page working on the copy it loaded, neither the stored cart nor any
\* page's copy ever holds two line items with the same id.
C20_NoDuplicateIdsAcrossTabs ==
    /\ storage.k = "cart" => NoRepeat(StoredIds(storage))
    /\ \A t \in Tabs : NoRepeat(ItemIds(cart[t].items))

\* C20 witness: an item another tab had removed from the key is back in it
\* after a remove on a cart page that still held it, and an add in another
\* tab has then put a second item beside it.
C20_Witness ==
    /\ lastOp.op = "add"
    /\ lastOp.outcome = "added"
    /\ Len(storage.items) = 2
    /\ \E t \in Tabs :
           /\ page[t] = "cart"
           /\ t # OpTab
           /\ Len(cart[t].items) = 1
           /\ ItemIds(cart[t].items)[1] = StoredIds(storage)[1]
           /\ notice[t].msg = "removed"

\* ------------------------------------------------- the listing's claims
\* What #products shows: the detail links of its cards, in order.
ShownLinks == [i \in 1..Len(app.products.rows) |-> app.products.rows[i].href]

\* The list #products has to show for a result: its products' ids in
\* order as cards, or the "No products found" block for an empty result.
Shows(result) ==
    IF result = <<>> THEN app.products.k = "empty"
    ELSE /\ app.products.k = "rows"
         /\ ShownLinks = [i \in 1..Len(result) |-> NumToChars(result[i].id.n)]

IsBlank(q) == \A i \in 1..Len(q) : q[i] = " "

\* q without the blanks around it.
Stripped(q) ==
    LET first == CHOOSE i \in 1..Len(q) : q[i] # " " /\ \A j \in 1..(i - 1) : q[j] = " "
        last == CHOOSE i \in 1..Len(q) : q[i] # " " /\ \A j \in (i + 1)..Len(q) : q[j] = " "
    IN  SubSeq(q, first, last)

\* Two characters that are the same letter in either case.
SameLetter(a, b) ==
    \/ a = b
    \/ \E i \in 1..26 : {a, b} = {UpperChars[i], LowerChars[i]}

\* q occurs in text, case-insensitively.
OccursIn(q, text) ==
    \E i \in 0..(Len(text) - Len(q)) :
        \A j \in 1..Len(q) : SameLetter(text[i + j], q[j])

SearchedFields == {"name", "brand", "category", "summary"}

\* The result of a search for q over P: all of P for an empty or blank q,
\* else the products with q (less the blanks around it) in one of the
\* searched fields, a missing field never matching.
SearchResult(P, q) ==
    LET Hit(p) == \E f \in SearchedFields : p[f].k = "str" /\ OccursIn(Stripped(q), p[f].s)
    IN  IF IsBlank(q) THEN P ELSE SelectSeq(P, Hit)

\* C12: search input is debounced. At most one evaluation is pending, and
\* it is the one the last input event scheduled; an event that arrives
\* while one is pending replaces it, so a burst of events ends in exactly
\* one evaluation, run after the burst's last event on the value of that
\* event's box.
C12_Debounce ==
    /\ Cardinality(timers) <= 1
    /\ \A tm \in timers :
           tm.id = searchTimeout /\ tm.id = hist.events /\ tm.box = hist.box
    /\ hist.evals + Cardinality(timers) = hist.bursts
    /\ hist.op = "fire" =>
           /\ timers = {}
           /\ hist.arg = Str(inputs[hist.box])
           /\ currentProducts = SearchResult(allProducts, inputs[hist.box])

\* C12 witness: a burst of two events, one on each box with different
\* values, has ended in a single evaluation.
C12_Witness ==
    /\ hist.op = "fire"
    /\ hist.events = 2
    /\ hist.bursts = 1
    /\ hist.evals = 1
    /\ ~IsBlank(inputs[hist.box])
    /\ SearchResult(allProducts, inputs["desktop"]) # SearchResult(allProducts, inputs["mobile"])

\* C13: a failed fetch of the navbar or the hero leaves its container empty
\* and nothing else: when the catalog fetch succeeds the listing page ends
\* its load showing the catalog's products, not the loading state.
C13_FragmentFailureNonFatal ==
    (hist.op = "catalog" /\ hist.outcome = "ok") =>
        /\ allProducts = catalog
        /\ Shows(catalog)

\* C14: when the fetch of the catalog fails, answers with a status that is
\* not ok or with a body that does not parse, the listing page ends its load
\* in the error state with the reload button: no product and no loading
\* state on screen, an empty snapshot and no second fetch.
C14_CatalogFailureShowsError ==
    (hist.op = "catalog" /\ hist.outcome # "ok") =>
        /\ app.products.k = "error"
        /\ allProducts = <<>>
        /\ app.fetches = 1

\* The products of P in category c, in P's order; all of P for "All".
CategoryResult(P, c) ==
    LET InCategory(p) == p.category.s = c.s
    IN  IF c.s = <<"A", "l", "l">> THEN P ELSE SelectSeq(P, InCategory)

\* C17: a click on a navbar category link or on a category dropdown item
\* shows exactly the products of the snapshot whose category is the clicked
\* one, letter case included, in the snapshot's order, and the whole
\* snapshot for "All".
C17_CategoryFilter ==
    hist.op \in {"navlink", "dropdown"} => Shows(CategoryResult(allProducts, hist.arg))

\* C17 witness: the dropdown has narrowed a catalog of three that is not in
\* id order to the two products of one category.
C17_Witness ==
    /\ hist.op = "dropdown"
    /\ hist.arg # CategoryAll
    /\ Len(allProducts) = 3
    /\ allProducts[1].id.n > allProducts[3].id.n
    /\ app.products.k = "rows"
    /\ Len(app.products.rows) = 2

NumeralDigits(cs) == IF cs # <<>> /\ Head(cs) = "-" THEN Tail(cs) ELSE cs

IsNumeral(cs) ==
    /\ NumeralDigits(cs) # <<>>
    /\ \A i \in 1..Len(NumeralDigits(cs)) : NumeralDigits(cs)[i] \in DigitSet

NumeralValue(cs) ==
    IF Head(cs) = "-" THEN 0 - DecimalOf(NumeralDigits(cs)) ELSE DecimalOf(cs)

\* The id parameter raw names no product of P: it is absent, it is no
\* number, it is not positive, or no product has it as id.
NamesNoProduct(raw, P) ==
    \/ raw = Null
    \/ ~IsNumeral(raw.s)
    \/ NumeralValue(raw.s) <= 0
    \/ \A i \in 1..Len(P) : P[i].id.n # NumeralValue(raw.s)

\* C15: a detail page whose id parameter is absent, non-numeric or not
\* positive, or is the id of no product of the catalog, ends its load in the
\* 'not found' view, with no current product and no error escaping.
C15_BadIdShowsNotFound ==
    (lastOp.op = "loadDetail" /\ NamesNoProduct(lastOp.arg, catalog)) =>
        /\ dom[OpTab].view = "notfound"
        /\ currentProduct[OpTab] = 0
        /\ ~dom[OpTab].errorShown

\* C16: one page load fetches the catalog once, and what it fetched is never
\* changed: a detail page that shows a product has fetched data.json exactly
\* once, no page more than once, and the listing's snapshot is the fetched
\* catalog or still empty.
C16_CatalogFetchedOnce ==
    /\ \A t \in Tabs :
           /\ dom[t].fetches <= 1
           /\ (page[t] = "detail" /\ dom[t].view = "product") => dom[t].fetches = 1
    /\ app.fetches <= 1
    /\ allProducts = <<>> \/ allProducts = catalog

\* The product of P with the id n.
ProductWithId(P, n) == P[CHOOSE i \in 1..Len(P) : P[i].id.n = n]

\* The first four (or fewer) of the products of P, in P's order, that are in
\* p's category and are not p.
RelatedTo(P, p) ==
    LET Fits(q) == q.category = p.category /\ q.id # p.id
        fitting == SelectSeq(P, Fits)
    IN  [i \in 1..(IF Len(fitting) > 4 THEN 4 ELSE Len(fitting)) |-> fitting[i]]

\* C19: the related section of a product's detail page lists the first four
\* (or fewer) products of the catalog, in catalog order, that share its
\* category and have another id; the product itself is never among them.
C19_RelatedProducts ==
    (lastOp.op = "loadDetail" /\ dom[OpTab].relatedView \in {"rows", "none"}) =>
        LET p == ProductWithId(catalog, currentProduct[OpTab])
            expected == RelatedTo(catalog, p)
        IN  /\ dom[OpTab].relatedView = "rows" <=> expected # <<>>
            /\ [i \in 1..Len(dom[OpTab].related) |-> dom[OpTab].related[i].href]
                   = [i \in 1..Len(expected) |-> NumToChars(expected[i].id.n)]
            /\ \A i \in 1..Len(dom[OpTab].related) :
                   dom[OpTab].related[i].href # NumToChars(currentProduct[OpTab])

\* C19 witness: of five other products in the category, in a catalog with
\* descending ids, the section lists four.
C19_Witness ==
    /\ lastOp.op = "loadDetail"
    /\ dom[OpTab].relatedView = "rows"
    /\ Len(dom[OpTab].related) = 4
    /\ Len(catalog) = 6
    /\ catalog[1].id.n > catalog[2].id.n
    /\ \A i \in 1..6 : catalog[i].category = catalog[1].category

\* What a rendered row shows of the line item: its name, its summary when it
\* has one, and its display price.
RowShowsItem(row, item) ==
    /\ item.name.k = "str" /\ row.name = item.name.s
    /\ row.summary = (IF item.summary.k = "str" THEN item.summary.s ELSE <<>>)
    /\ item.displayPrice.k = "str" => row.price = item.displayPrice.s

\* The position (from 0) the remove button of a row carries.
RowPosition(row) == ParseInt(row.dataIndex)

\* C21: on a cart page that has initialized, and so after every remove, the
\* view agrees with the in-memory cart. An empty cart shows the empty-cart
\* message with the checkout button disabled; any other cart has the button
\* enabled and one row per line item, in cart order, whose remove button
\* carries the item's current position, so that removing at the position a
\* row carries removes the item that row shows.
C21_ViewAgreesWithCart ==
    \A t \in Tabs :
        (page[t] = "cart" /\ dom[t].listeners) =>
            LET items == cart[t].items
                view == dom[t].container
            IN  /\ IsArray(cart[t])
                /\ items = <<>> =>
                       /\ view.k = "empty"
                       /\ view.rows = <<>>
                       /\ dom[t].checkoutDisabled
                /\ items # <<>> =>
                       /\ ~dom[t].checkoutDisabled
                       /\ view.k = "rows"
                       /\ Len(view.rows) = Len(items)
                       /\ \A i \in 1..Len(items) :
                              /\ RowShowsItem(view.rows[i], items[i])
                              /\ RowPosition(view.rows[i]) = Num(i - 1)
                              /\ RemoveItemResult(cart[t], RowPosition(view.rows[i])).cart.items
                                     = RemoveAt(items, i - 1)
                              /\ RemoveItemResult(cart[t], RowPosition(view.rows[i])).name
                                     = items[i].name

\* C21 witness: the first of three rows was removed, and the two rows left
\* are shown renumbered from 0, the first of them being the item that was
\* second.
C21_Witness ==
    /\ lastOp.op = "remove"
    /\ lastOp.outcome = "removed"
    /\ lastOp.arg = Num(0)
    /\ Len(lastOp.preCart.items) = 3
    /\ Len(dom[OpTab].container.rows) = 2
    /\ dom[OpTab].container.rows[1].dataIndex = <<"0">>
    /\ dom[OpTab].container.rows[1].name = ToChars(lastOp.preCart.items[2].name)
    /\ ~dom[OpTab].checkoutDisabled

\* The query the last input event left in its box (none before the first).
TypedQuery == IF hist.box \in SearchBoxes THEN inputs[hist.box] ELSE <<>>

\* A step that ends the later of the two: the catalog arrives after the
\* evaluation has run, or the evaluation runs after the catalog has arrived.
EvaluatedThenLoaded ==
    /\ hist.op = "fire" /\ timers = {}
    /\ hist'.op = "catalog" /\ hist'.outcome = "ok"

LoadedThenEvaluated ==
    /\ hist.op = "catalog" /\ hist.outcome = "ok"
    /\ hist'.op = "fire" /\ timers' = {}

\* C22: when a non-empty query was typed while data.json was being fetched,
\* then once the catalog has loaded and the debounced evaluation has run,
\* in either order, the listing shows the search result of that query over
\* the loaded catalog.
C22_SearchDuringLoad ==
    [][(/\ hist'.during
        /\ TypedQuery # <<>>
        /\ EvaluatedThenLoaded \/ LoadedThenEvaluated) =>
           /\ allProducts' = catalog
           /\ (Shows(SearchResult(catalog, TypedQuery)))']_vars

====
